---- MODULE Spec2Model ----
(***************************************************************************)
(* Sticker Sketchpad: the undo/redo history, the draw commands, the tool   *)
(* registry and the input handlers of the latest revision                  *)
(* (src/unnamed/part_002).                                                 *)
(***************************************************************************)
EXTENDS Integers, Sequences, FiniteSets, TLC

(***************************************************************************)
(* Bounds of the model.                                                    *)
(***************************************************************************)
\* number of draw commands created over one run (primary-button presses)
MaxDrawables == 2
\* number of points one marker stroke may collect
MaxPoints == 2
\* exports whose conversion is pending at one time
MaxExports == 1

(***************************************************************************)
(* Program constants.                                                      *)
(***************************************************************************)
LEFT_CLICK == 0
RELIEVED_EMOJI == "U+1F60C"
EXPRESSIONLESS_EMOJI == "U+1F611"
PENSIVE_EMOJI == "U+1F614"
\* the number NaN, a value no pointer coordinate takes
NaN == 0 - 1
NaNPoint == [x |-> NaN, y |-> NaN]
\* cursorDrawCommand === null
Null == [kind |-> "null"]

(***************************************************************************)
(* Inputs the environment may deliver.                                     *)
(***************************************************************************)
\* pointer positions (clientX - offsetLeft, clientY - offsetTop)
Points == {[x |-> 0, y |-> 0], [x |-> 10, y |-> 0]}
\* ev.button of a mousedown: the primary button, or 2 for the secondary one
Buttons == {LEFT_CLICK, 2}
\* values of the colour picker and of the rotation slider
Colors == {"#000000", "#ff0000"}
Rotations == {0, 90}
\* texts typed at the custom-sticker prompt; Null stands for Cancel
PromptTexts == {"X", "Thin Marker", "toString"}
\* tool buttons the user clicks
ClickTools == {"Thin Marker", "X"}

\* property names every object literal inherits from Object.prototype;
\* `text in drawingTools` is true for them although they are no tools
ObjectPrototypeKeys == {"toString"}

VARIABLES
    undoStack,             \* displayList / undoStack: committed draw commands
    redoStack,             \* undone draw commands
    drawingTool,           \* name of the active tool
    cursorDrawCommand,     \* cursor preview, or Null
    drawingTools,          \* tool registry: name -> tool
    toolButtons,           \* the tool buttons, in creation order
    colorPicker,           \* colorPicker.value
    stickerRotationSlider, \* Number(stickerRotationSlider.value)
    nextId,                \* identity of the next draw command object
    exportTargets          \* export targets whose conversion is pending

vars == <<undoStack, redoStack, drawingTool, cursorDrawCommand, drawingTools,
          toolButtons, colorPicker, stickerRotationSlider, nextId,
          exportTargets>>

(***************************************************************************)
(* Sequence helpers.                                                       *)
(***************************************************************************)
Front(s) == SubSeq(s, 1, Len(s) - 1)
Top(s) == s[Len(s)]
IsPrefix(s, t) == Len(s) <= Len(t) /\ SubSeq(t, 1, Len(s)) = s

(***************************************************************************)
(* Tools and draw commands.                                                *)
(***************************************************************************)
MarkerTool(lineWidth) == [kind |-> "marker", lineWidth |-> lineWidth]
StickerTool(text) == [kind |-> "sticker", text |-> text]
\* what drawingTools[name] evaluates to for an inherited property
PrototypeMember(name) == [kind |-> "function", name |-> name]

InitialTools ==
    [name \in {"Thin Marker", "Thick Marker", RELIEVED_EMOJI,
               EXPRESSIONLESS_EMOJI, PENSIVE_EMOJI} |->
        CASE name = "Thin Marker" -> MarkerTool(2)
          [] name = "Thick Marker" -> MarkerTool(6)
          [] OTHER -> StickerTool(name)]
InitialButtonOrder ==
    <<"Thin Marker", "Thick Marker", RELIEVED_EMOJI,
      EXPRESSIONLESS_EMOJI, PENSIVE_EMOJI>>

\* `name in drawingTools`
HasProperty(tools, name) == name \in DOMAIN tools \/ name \in ObjectPrototypeKeys
\* drawingTools[name]
Lookup(tools, name) ==
    IF name \in DOMAIN tools THEN tools[name] ELSE PrototypeMember(name)
\* drawingTools[name].makeDrawCommand / .makeCursorDrawCommand is callable
Callable(tools, name) == Lookup(tools, name).kind \in {"marker", "sticker"}

\* DrawCommand.posn
Posn(cmd) ==
    IF cmd.kind = "marker"
    THEN IF Len(cmd.points) > 0 THEN Top(cmd.points) ELSE NaNPoint
    ELSE cmd.posn

makeMarkerDrawCommand(id, options, color) ==
    [id |-> id, kind |-> "marker", lineWidth |-> options.lineWidth,
     color |-> color, points |-> <<>>]

makeCircleCursorDrawCommand(radius) ==
    [id |-> 0, kind |-> "circle", radius |-> radius, posn |-> NaNPoint]

makeStickerDrawCommand(id, options, rotation, cursor) ==
    [id |-> id, kind |-> "sticker", text |-> options.text,
     rotation |-> rotation,
     posn |-> IF cursor = Null THEN NaNPoint ELSE Posn(cursor)]

\* DrawingTool.makeDrawCommand()
makeDrawCommand(tool, id, color, rotation, cursor) ==
    IF tool.kind = "marker"
    THEN makeMarkerDrawCommand(id, tool, color)
    ELSE makeStickerDrawCommand(id, tool, rotation, cursor)

\* DrawingTool.makeCursorDrawCommand()
makeCursorDrawCommand(tool, color, rotation, cursor) ==
    IF tool.kind = "marker"
    THEN makeCircleCursorDrawCommand(tool.lineWidth \div 2)
    ELSE makeDrawCommand(tool, 0, color, rotation, cursor)

\* slip: a stroke that skips a sample equal to its last point
moveDeduplicates(cmd, posn) ==
    IF cmd.kind = "marker"
    THEN IF Len(cmd.points) > 0 /\ Top(cmd.points) = posn
         THEN cmd
         ELSE [cmd EXCEPT !.points = Append(@, posn)]
    ELSE [cmd EXCEPT !.posn = posn]

\* slip: a sticker that adds the move to its anchor
moveAccumulates(cmd, posn) ==
    IF cmd.kind = "marker"
    THEN [cmd EXCEPT !.points = Append(@, posn)]
    ELSE [cmd EXCEPT !.posn = [x |-> @.x + posn.x, y |-> @.y + posn.y]]

\* DrawCommand.move(posn)
move(cmd, posn) ==
    IF cmd.kind = "marker"
    THEN [cmd EXCEPT !.points = Append(@, posn)]
    ELSE [cmd EXCEPT !.posn = posn]

\* drawingShowCursor(): the new cursor preview; throws when the active tool
\* has no cursor factory, and then cursorDrawCommand keeps its value
ShowCursorThrows(tools, tool) == ~Callable(tools, tool)
drawingShowCursor(tools, tool, color, rotation, cursor) ==
    IF Callable(tools, tool)
    THEN makeCursorDrawCommand(Lookup(tools, tool), color, rotation, cursor)
    ELSE cursor

\* drawingSetTool(which): drawingTool is assigned before drawingShowCursor
\* runs, so it keeps the new value when drawingShowCursor throws
drawingSetTool(tools, which, color, rotation, cursor) ==
    [drawingTool |-> which,
     cursorDrawCommand |-> drawingShowCursor(tools, which, color, rotation,
                                             cursor)]

\* the 'tool-changed' listeners of the tool buttons
ToolChanged(buttons, tool) ==
    [i \in 1..Len(buttons) |->
        [buttons[i] EXCEPT !.disabled = (tool = buttons[i].name)]]

(***************************************************************************)
(* Initial state: the module body has run.                                 *)
(***************************************************************************)
Init ==
    /\ undoStack = <<>>
    /\ redoStack = <<>>
    /\ drawingTool = "Thin Marker"
    /\ cursorDrawCommand = makeCircleCursorDrawCommand(1)
    /\ drawingTools = InitialTools
    /\ toolButtons = ToolChanged(
          [i \in 1..Len(InitialButtonOrder) |->
              [name |-> InitialButtonOrder[i], disabled |-> FALSE]],
          "Thin Marker")
    /\ colorPicker = "#000000"
    /\ stickerRotationSlider = 0
    /\ nextId = 1
    /\ exportTargets = <<>>

(***************************************************************************)
(* Tool-agnostic canvas operations, as functions of the state they read.   *)
(***************************************************************************)
\* slip: undoes every committed command in one call
drawingUndoAll(undo, redo) ==
    IF Len(undo) > 0
    THEN [undoStack |-> <<>>,
          redoStack |-> redo \o [i \in 1..Len(undo) |-> undo[Len(undo) + 1 - i]],
          ret |-> "true"]
    ELSE [undoStack |-> undo, redoStack |-> redo, ret |-> "false"]

\* slip: reads the top with undo[undo.length - 1] and never pops it
drawingUndoKeepsTop(undo, redo) ==
    IF Len(undo) > 0
    THEN [undoStack |-> undo, redoStack |-> Append(redo, Top(undo)),
          ret |-> "true"]
    ELSE [undoStack |-> undo, redoStack |-> redo, ret |-> "false"]

drawingUndo(undo, redo) ==
    IF Len(undo) > 0
    THEN [undoStack |-> Front(undo), redoStack |-> Append(redo, Top(undo)),
          ret |-> "true"]
    ELSE [undoStack |-> undo, redoStack |-> redo, ret |-> "false"]

\* slip: restores every undone command in one call
drawingRedoAll(undo, redo) ==
    IF Len(redo) > 0
    THEN [undoStack |-> undo \o [i \in 1..Len(redo) |-> redo[Len(redo) + 1 - i]],
          redoStack |-> <<>>, ret |-> "true"]
    ELSE [undoStack |-> undo, redoStack |-> redo, ret |-> "false"]

\* slip: unshift instead of push
drawingRedoUnshift(undo, redo) ==
    IF Len(redo) > 0
    THEN [undoStack |-> <<Top(redo)>> \o undo, redoStack |-> Front(redo),
          ret |-> "true"]
    ELSE [undoStack |-> undo, redoStack |-> redo, ret |-> "false"]

\* slip: pushes the top of the redo stack without popping it
drawingRedoCopies(undo, redo) ==
    IF Len(redo) > 0
    THEN [undoStack |-> Append(undo, Top(redo)), redoStack |-> redo,
          ret |-> "true"]
    ELSE [undoStack |-> undo, redoStack |-> redo, ret |-> "false"]

drawingRedo(undo, redo) ==
    IF Len(redo) > 0
    THEN [undoStack |-> Append(undo, Top(redo)), redoStack |-> Front(redo),
          ret |-> "true"]
    ELSE [undoStack |-> undo, redoStack |-> redo, ret |-> "false"]

\* slip: Clear as in the first undo/redo revision, which empties displayList only
drawingClearKeepsRedo(undo, redo) ==
    [undoStack |-> <<>>, redoStack |-> redo]

drawingClear(undo, redo) ==
    [undoStack |-> <<>>, redoStack |-> <<>>]

\* slip: a new step that keeps the redo stack
drawingBeginUndoStepKeepsRedo(undo, redo, tools, tool, id, color, rotation, cursor) ==
    IF Callable(tools, tool)
    THEN [undoStack |-> Append(undo,
              makeDrawCommand(Lookup(tools, tool), id, color, rotation, cursor)),
          redoStack |-> redo, threw |-> FALSE]
    ELSE [undoStack |-> undo, redoStack |-> redo, threw |-> TRUE]

\* redoStack.length = 0 runs before the factory is looked up and called, so
\* a throwing factory call leaves the redo stack cleared and pushes nothing
drawingBeginUndoStep(undo, redo, tools, tool, id, color, rotation, cursor) ==
    IF Callable(tools, tool)
    THEN [undoStack |-> Append(undo,
              makeDrawCommand(Lookup(tools, tool), id, color, rotation, cursor)),
          redoStack |-> <<>>, threw |-> FALSE]
    ELSE [undoStack |-> undo, redoStack |-> <<>>, threw |-> TRUE]

\* slip: reads the bottom of the stack, undoStack[0]
drawingGetUndoStepBottom(undo) == IF Len(undo) > 0 THEN 1 ELSE 0

\* drawingGetUndoStep(): index of the current step in undoStack, 0 for null
drawingGetUndoStep(undo) == IF Len(undo) > 0 THEN Len(undo) ELSE 0

makeToolButton(buttons, toolName) ==
    Append(buttons, [name |-> toolName, disabled |-> FALSE])

\* slip: registers and makes a button without looking the text up
defineCustomStickerAlways(tools, buttons, text) ==
    [drawingTools |->
        [name \in DOMAIN tools \cup {text} |->
            IF name = text THEN StickerTool(text) ELSE tools[name]],
     toolButtons |-> makeToolButton(buttons, text),
     ret |-> StickerTool(text)]

defineCustomSticker(tools, buttons, text) ==
    IF HasProperty(tools, text)
    THEN [drawingTools |-> tools, toolButtons |-> buttons,
          ret |-> Lookup(tools, text)]
    ELSE [drawingTools |->
              [name \in DOMAIN tools \cup {text} |->
                  IF name = text THEN StickerTool(text) ELSE tools[name]],
          toolButtons |-> makeToolButton(buttons, text),
          ret |-> StickerTool(text)]

\* what prompt("Sticker text") returns when the user enters text
PromptAnswer(text) == [kind |-> "string", text |-> text]

\* slip: no test for the cancelled prompt, null is used as the text "null"
tryDefineCustomStickerFromPromptNoNullTest(answer, tools, buttons, tool, color, rotation, cursor) ==
    LET text == IF answer = Null THEN "null" ELSE answer.text
        r == defineCustomSticker(tools, buttons, text)
        t == drawingSetTool(r.drawingTools, text, color, rotation, cursor)
    IN [drawingTools |-> r.drawingTools, toolButtons |-> r.toolButtons,
        drawingTool |-> t.drawingTool,
        cursorDrawCommand |-> t.cursorDrawCommand,
        threw |-> ShowCursorThrows(r.drawingTools, text)]

\* tryDefineCustomStickerFromPrompt(): answer is what prompt() returned,
\* Null when the user cancelled; drawingSetTool runs whatever the active
\* tool is, and no 'tool-changed' event is dispatched
tryDefineCustomStickerFromPrompt(answer, tools, buttons, tool, color, rotation, cursor) ==
    IF answer = Null
    THEN [drawingTools |-> tools, toolButtons |-> buttons,
          drawingTool |-> tool, cursorDrawCommand |-> cursor,
          threw |-> FALSE]
    ELSE LET r == defineCustomSticker(tools, buttons, answer.text)
             t == drawingSetTool(r.drawingTools, answer.text, color,
                      rotation, cursor)
         IN [drawingTools |-> r.drawingTools, toolButtons |-> r.toolButtons,
             drawingTool |-> t.drawingTool,
             cursorDrawCommand |-> t.cursorDrawCommand,
             threw |-> ShowCursorThrows(r.drawingTools, answer.text)]

\* drawingExport(where): the cursor preview after the export; it is hidden,
\* the target is rendered, and the cursor is shown again if it was shown
drawingExport(tools, tool, color, rotation, cursor) ==
    IF cursor # Null
    THEN drawingShowCursor(tools, tool, color, rotation, Null)
    ELSE Null

(***************************************************************************)
(* Rendering.  A draw is the sequence of calls it makes on the rendering   *)
(* context, together with the draw command as the draw leaves it.          *)
(***************************************************************************)
\* what a drawingUpdate reads: displayList, cursorDrawCommand and, through
\* the circle cursor, colorPicker.value
Reads(list, cursor, picker) ==
    [displayList |-> list, cursorDrawCommand |-> cursor,
     colorPicker |-> picker]

RECURSIVE Flatten(_)
Flatten(ss) == IF ss = <<>> THEN <<>> ELSE Head(ss) \o Flatten(Tail(ss))

\* drawPath(ctx, how)
drawPath(how) ==
    <<[op |-> "beginPath"]>> \o how \o
    <<[op |-> "closePath"], [op |-> "stroke"]>>

drawLine(p1, p2) ==
    drawPath(<<[op |-> "moveTo", x |-> p1.x, y |-> p1.y],
               [op |-> "lineTo", x |-> p2.x, y |-> p2.y]>>)

drawCircle(posn, radius) ==
    drawPath(<<[op |-> "ellipse", x |-> posn.x, y |-> posn.y,
                radius |-> radius]>>)

\* forEachAdjacentPair(ts, doWhat): the pairs doWhat is called with
forEachAdjacentPair(ts) ==
    IF Len(ts) < 2 THEN <<>>
    ELSE [i \in 1..(Len(ts) - 1) |-> <<ts[i], ts[i + 1]>>]

\* the calls DrawCommand.draw(ctx) makes on ctx; picker is
\* colorPicker.value, which the circle cursor reads when it is drawn
drawCalls(cmd, picker) ==
    CASE cmd.kind = "marker" ->
             LET pairs == forEachAdjacentPair(cmd.points)
             IN <<[op |-> "strokeStyle", value |-> cmd.color],
                  [op |-> "lineWidth", value |-> cmd.lineWidth]>> \o
                Flatten([i \in 1..Len(pairs) |->
                    drawLine(pairs[i][1], pairs[i][2])])
      [] cmd.kind = "circle" ->
             <<[op |-> "strokeStyle", value |-> picker],
               [op |-> "lineWidth", value |-> 1]>> \o
             drawCircle(cmd.posn, cmd.radius)
      [] cmd.kind = "sticker" ->
             <<[op |-> "save"],
               [op |-> "translate", x |-> cmd.posn.x, y |-> cmd.posn.y],
               [op |-> "rotate", value |-> cmd.rotation],
               [op |-> "scale"],
               [op |-> "textAlign"],
               [op |-> "textBaseline"],
               [op |-> "font"],
               [op |-> "fillText", value |-> cmd.text],
               [op |-> "restore"]>>

\* slip: a marker draws its points by shifting them out of this.points
drawConsumesPoints(cmd, picker) ==
    [calls |-> drawCalls(cmd, picker),
     self |-> IF cmd.kind = "marker" THEN [cmd EXCEPT !.points = <<>>]
              ELSE cmd]

\* DrawCommand.draw(ctx): no draw method assigns to a field of this
draw(cmd, picker) == [calls |-> drawCalls(cmd, picker), self |-> cmd]

\* the loop of drawingUpdate over displayList
RECURSIVE drawEach(_, _)
drawEach(list, picker) ==
    IF list = <<>>
    THEN [calls |-> <<>>, drawn |-> <<>>, list |-> <<>>]
    ELSE LET d == draw(Head(list), picker)
             rest == drawEach(Tail(list), picker)
         IN [calls |-> d.calls \o rest.calls,
             drawn |-> <<Head(list)>> \o rest.drawn,
             list |-> <<d.self>> \o rest.list]

\* slip: draws the cursor preview under the drawing
drawingUpdateCursorFirst(list, cursor, picker) ==
    LET body == drawEach(list, picker)
        c == IF cursor # Null THEN drawEach(<<cursor>>, picker)
             ELSE drawEach(<<>>, picker)
    IN [calls |-> <<[op |-> "clearRect"]>> \o c.calls \o body.calls,
        drawn |-> c.drawn \o body.drawn,
        displayList |-> body.list,
        cursorDrawCommand |-> IF cursor # Null THEN c.list[1] ELSE Null]

\* drawingUpdate(canvas, ctx) on displayList = list and cursorDrawCommand =
\* cursor: the calls made on ctx, the draw commands whose draw ran, in
\* order, and displayList and cursorDrawCommand as the render leaves them
drawingUpdate(list, cursor, picker) ==
    LET body == drawEach(list, picker)
        c == IF cursor # Null THEN drawEach(<<cursor>>, picker)
             ELSE drawEach(<<>>, picker)
    IN [calls |-> <<[op |-> "clearRect"]>> \o body.calls \o c.calls,
        drawn |-> body.drawn \o c.drawn,
        displayList |-> body.list,
        cursorDrawCommand |-> IF cursor # Null THEN c.list[1] ELSE Null]

\* the render drawingExport(where) makes on the export target: it runs
\* after drawingHideCursor(), so drawingUpdate reads cursorDrawCommand = null
drawingExportRender(list, cursor, picker) ==
    LET hidden == Null
    IN drawingUpdate(list, hidden, picker)

(***************************************************************************)
(* Event handlers.  Every handler runs to completion; a handler that       *)
(* throws stops where it throws and keeps the assignments made before.     *)
(***************************************************************************)
\* the renders the canvas 'mousedown' listener causes with the primary
\* button, in order: 'drawing-changed' is dispatched before
\* drawingHideCursor() runs, 'tool-moved' after it
MouseDownRenders ==
    LET r == drawingBeginUndoStep(undoStack, redoStack, drawingTools,
                 drawingTool, nextId, colorPicker, stickerRotationSlider,
                 cursorDrawCommand)
    IN IF r.threw THEN <<>>
       ELSE <<Reads(r.undoStack, cursorDrawCommand, colorPicker),
              Reads(r.undoStack, Null, colorPicker)>>

\* the renders the canvas 'mousemove' listener causes, in order:
\* 'drawing-changed' after command.move(posn), then 'tool-moved'
MouseMoveRenders(posn, held) ==
    IF held /\ Len(undoStack) > 0
    THEN LET moved == [undoStack EXCEPT
                          ![drawingGetUndoStep(undoStack)] = move(@, posn)]
         IN <<Reads(moved, Null, colorPicker),
              Reads(moved, Null, colorPicker)>>
    ELSE IF ShowCursorThrows(drawingTools, drawingTool) THEN <<>>
         ELSE <<Reads(undoStack,
                    move(drawingShowCursor(drawingTools, drawingTool,
                             colorPicker, stickerRotationSlider,
                             cursorDrawCommand), posn),
                    colorPicker)>>

\* the render the onclick of the i-th tool button causes: 'tool-moved',
\* dispatched after drawingSetTool and the 'tool-changed' listeners have run
ToolButtonClickRenders(i) ==
    IF drawingTool # toolButtons[i].name
    THEN <<Reads(undoStack,
               drawingSetTool(drawingTools, toolButtons[i].name, colorPicker,
                   stickerRotationSlider, cursorDrawCommand).cursorDrawCommand,
               colorPicker)>>
    ELSE <<>>

\* the render the onclick of an action button causes: 'drawing-changed',
\* dispatched after doWhat() has returned, and not at all when it threw;
\* list and cursor are displayList and cursorDrawCommand as doWhat() left
\* them
makeActionButtonRenders(list, cursor, picker, threw) ==
    IF threw THEN <<>> ELSE <<Reads(list, cursor, picker)>>

\* canvas 'mousedown'
MouseDown(button) ==
    IF button = LEFT_CLICK
    THEN LET r == drawingBeginUndoStep(undoStack, redoStack, drawingTools,
                      drawingTool, nextId, colorPicker,
                      stickerRotationSlider, cursorDrawCommand)
         IN /\ r.threw \/ nextId <= MaxDrawables
            /\ undoStack' = r.undoStack
            /\ redoStack' = r.redoStack
            /\ nextId' = IF r.threw THEN nextId ELSE nextId + 1
            \* drawingHideCursor() is not reached when the step threw
            /\ cursorDrawCommand' =
                  IF r.threw THEN cursorDrawCommand ELSE Null
            /\ UNCHANGED <<drawingTool, drawingTools, toolButtons,
                           colorPicker, stickerRotationSlider, exportTargets>>
    ELSE UNCHANGED vars

\* canvas 'mousemove'; held is (ev.buttons & LEFT_CLICK_FLAG) === LEFT_CLICK_FLAG
MouseMove(posn, held) ==
    IF held /\ Len(undoStack) > 0
    THEN LET i == drawingGetUndoStep(undoStack)
         IN /\ undoStack[i].kind = "marker" =>
                  Len(undoStack[i].points) < MaxPoints
            /\ cursorDrawCommand' = Null
            /\ undoStack' = [undoStack EXCEPT ![i] = move(@, posn)]
            /\ UNCHANGED <<redoStack, drawingTool, drawingTools, toolButtons,
                           colorPicker, stickerRotationSlider, nextId,
                           exportTargets>>
    ELSE /\ cursorDrawCommand' =
              IF ShowCursorThrows(drawingTools, drawingTool)
              THEN cursorDrawCommand
              ELSE move(drawingShowCursor(drawingTools, drawingTool,
                            colorPicker, stickerRotationSlider,
                            cursorDrawCommand), posn)
         /\ UNCHANGED <<undoStack, redoStack, drawingTool, drawingTools,
                        toolButtons, colorPicker, stickerRotationSlider,
                        nextId, exportTargets>>

\* onclick of the i-th tool button; a disabled button receives no click
ToolButtonClick(i) ==
    /\ i \in 1..Len(toolButtons)
    /\ ~toolButtons[i].disabled
    /\ toolButtons[i].name \in ClickTools
    /\ UNCHANGED <<undoStack, redoStack, drawingTools, colorPicker,
                   stickerRotationSlider, nextId, exportTargets>>
    /\ LET toolName == toolButtons[i].name
       IN IF drawingTool # toolName
          THEN LET t == drawingSetTool(drawingTools, toolName, colorPicker,
                              stickerRotationSlider, cursorDrawCommand)
               IN /\ drawingTool' = t.drawingTool
                  /\ cursorDrawCommand' = t.cursorDrawCommand
                  /\ toolButtons' = ToolChanged(toolButtons, t.drawingTool)
          ELSE UNCHANGED <<drawingTool, cursorDrawCommand, toolButtons,
                           exportTargets>>

\* onclick of the action button "Undo"
UndoClick ==
    LET r == drawingUndo(undoStack, redoStack)
    IN /\ undoStack' = r.undoStack
       /\ redoStack' = r.redoStack
       /\ UNCHANGED <<drawingTool, cursorDrawCommand, drawingTools,
                      toolButtons, colorPicker, stickerRotationSlider, nextId,
                      exportTargets>>

\* onclick of the action button "Redo"
RedoClick ==
    LET r == drawingRedo(undoStack, redoStack)
    IN /\ undoStack' = r.undoStack
       /\ redoStack' = r.redoStack
       /\ UNCHANGED <<drawingTool, cursorDrawCommand, drawingTools,
                      toolButtons, colorPicker, stickerRotationSlider, nextId,
                      exportTargets>>

\* onclick of the action button "Clear"
ClearClick ==
    LET r == drawingClear(undoStack, redoStack)
    IN /\ undoStack' = r.undoStack
       /\ redoStack' = r.redoStack
       /\ UNCHANGED <<drawingTool, cursorDrawCommand, drawingTools,
                      toolButtons, colorPicker, stickerRotationSlider, nextId,
                      exportTargets>>

\* onclick of "Custom sticker..." with the answer the prompt returns
CustomStickerPrompt(answer) ==
    LET r == tryDefineCustomStickerFromPrompt(answer, drawingTools,
                 toolButtons, drawingTool, colorPicker,
                 stickerRotationSlider, cursorDrawCommand)
    IN /\ drawingTools' = r.drawingTools
       /\ toolButtons' = r.toolButtons
       /\ drawingTool' = r.drawingTool
       /\ cursorDrawCommand' = r.cursorDrawCommand
       /\ UNCHANGED <<undoStack, redoStack, colorPicker,
                      stickerRotationSlider, nextId, exportTargets>>

\* the user cancels the prompt (text === null)
CustomStickerCancel == CustomStickerPrompt(Null)

\* the user enters text at the prompt
CustomStickerClick(text) == CustomStickerPrompt(PromptAnswer(text))

\* onclick of "Export...": the synchronous part of drawingExportToDownload.
\* The target canvas is local to the call and no handler can reach it; it is
\* followed up to the download in SpecExport (ExportStart, ExportComplete)
ExportClick ==
    /\ cursorDrawCommand' =
          drawingExport(drawingTools, drawingTool, colorPicker,
              stickerRotationSlider, cursorDrawCommand)
    /\ UNCHANGED <<undoStack, redoStack, drawingTool, drawingTools,
                   toolButtons, colorPicker, stickerRotationSlider, nextId,
                   exportTargets>>

\* the renders a change of the colour picker causes: the picker is created
\* without any listener, so none
ColorInputRenders == <<>>

\* the user picks a colour: no listener runs
ColorInput(color) ==
    /\ colorPicker' = color
    /\ UNCHANGED <<undoStack, redoStack, drawingTool, cursorDrawCommand,
                   drawingTools, toolButtons, stickerRotationSlider, nextId,
                   exportTargets>>

\* the user drags the rotation slider: no listener runs
RotationInput(rotation) ==
    /\ stickerRotationSlider' = rotation
    /\ UNCHANGED <<undoStack, redoStack, drawingTool, cursorDrawCommand,
                   drawingTools, toolButtons, colorPicker, nextId,
                   exportTargets>>

Next ==
    \/ \E button \in Buttons : MouseDown(button)
    \/ \E posn \in Points, held \in BOOLEAN : MouseMove(posn, held)
    \/ \E i \in 1..Len(toolButtons) : ToolButtonClick(i)
    \/ UndoClick
    \/ RedoClick
    \/ ClearClick
    \/ CustomStickerCancel
    \/ \E text \in PromptTexts : CustomStickerClick(text)
    \/ ExportClick

Spec == Init /\ [][Next]_vars

\* the same program with the colour picker and the rotation slider in use
NextStyle ==
    \/ Next
    \/ \E color \in Colors : ColorInput(color)
    \/ \E rotation \in Rotations : RotationInput(rotation)

SpecStyle == Init /\ [][NextStyle]_vars

(***************************************************************************)
(* Export, with the asynchronous conversion.  drawingExportToDownload runs *)
(* up to its await inside the click handler; its continuation runs as a    *)
(* step of its own, after any number of other handlers.                    *)
(***************************************************************************)
\* drawingExport(target) throws in drawingShowCursor, after the target is
\* drawn: the promise is rejected and nothing is converted or downloaded
drawingExportThrows(tools, tool, cursor) ==
    cursor # Null /\ ShowCursorThrows(tools, tool)

\* the target as the await finds it: bitmap is what drawingExport(target)
\* drew on it; invoked is a copy of what displayList and colorPicker held
\* when the handler ran, kept for stating properties about the download
exportTarget(list, cursor, picker) ==
    [bitmap |-> drawingExportRender(list, cursor, picker).calls,
     invoked |-> Reads(list, Null, picker)]

\* slip: the blob is made from a render at the time the conversion completes
convertToBlobLate(target, list, picker) ==
    [type |-> "image/png", image |-> drawingUpdate(list, Null, picker).calls]

\* await target.convertToBlob(): the PNG of the target's bitmap.  displayList
\* and colorPicker.value are in scope of the continuation, which reads
\* neither
convertToBlob(target, list, picker) ==
    [type |-> "image/png", image |-> target.bitmap]

\* onclick of "Export...": drawingExportToDownload up to its await
ExportStart ==
    LET throws == drawingExportThrows(drawingTools, drawingTool,
                      cursorDrawCommand)
    IN /\ throws \/ Len(exportTargets) < MaxExports
       /\ cursorDrawCommand' =
             drawingExport(drawingTools, drawingTool, colorPicker,
                 stickerRotationSlider, cursorDrawCommand)
       /\ exportTargets' =
             IF throws THEN exportTargets
             ELSE Append(exportTargets,
                      exportTarget(undoStack, cursorDrawCommand, colorPicker))
       /\ UNCHANGED <<undoStack, redoStack, drawingTool, drawingTools,
                      toolButtons, colorPicker, stickerRotationSlider, nextId>>

\* the conversion of the k-th pending target completes: the continuation
\* downloads convertToBlob(exportTargets[k], undoStack, colorPicker)
ExportComplete(k) ==
    /\ k \in 1..Len(exportTargets)
    /\ exportTargets' =
          SubSeq(exportTargets, 1, k - 1) \o
          SubSeq(exportTargets, k + 1, Len(exportTargets))
    /\ UNCHANGED <<undoStack, redoStack, drawingTool, cursorDrawCommand,
                   drawingTools, toolButtons, colorPicker,
                   stickerRotationSlider, nextId>>

NextExport ==
    \/ \E button \in Buttons : MouseDown(button)
    \/ \E posn \in Points, held \in BOOLEAN : MouseMove(posn, held)
    \/ \E i \in 1..Len(toolButtons) : ToolButtonClick(i)
    \/ UndoClick
    \/ RedoClick
    \/ ClearClick
    \/ CustomStickerCancel
    \/ \E text \in PromptTexts : CustomStickerClick(text)
    \/ ExportStart
    \/ \E k \in 1..MaxExports : ExportComplete(k)

SpecExport == Init /\ [][NextExport]_vars

(***************************************************************************)
(* The first revision with undo and redo.  A stroke is a list of points;   *)
(* there are no tools, no cursor preview and no colour picker, and the     *)
(* variables that stand for them keep the value Null.                      *)
(***************************************************************************)
Init_000 ==
    /\ undoStack = <<>>
    /\ redoStack = <<>>
    /\ nextId = 1
    /\ drawingTool = Null
    /\ cursorDrawCommand = Null
    /\ drawingTools = Null
    /\ toolButtons = Null
    /\ colorPicker = Null
    /\ stickerRotationSlider = Null
    /\ exportTargets = <<>>

drawingUndo_000(undo, redo) ==
    IF Len(undo) > 0
    THEN [undoStack |-> Front(undo), redoStack |-> Append(redo, Top(undo)),
          ret |-> "true"]
    ELSE [undoStack |-> undo, redoStack |-> redo, ret |-> "false"]

drawingRedo_000(undo, redo) ==
    IF Len(redo) > 0
    THEN [undoStack |-> Append(undo, Top(redo)), redoStack |-> Front(redo),
          ret |-> "true"]
    ELSE [undoStack |-> undo, redoStack |-> redo, ret |-> "false"]

\* displayList.length = 0: redoStack is not touched
drawingClear_000(undo, redo) == [undoStack |-> <<>>, redoStack |-> redo]

\* canvas 'mousedown': displayList.push([]); redoStack is not touched
MouseDown_000(button) ==
    IF button = LEFT_CLICK
    THEN /\ nextId <= MaxDrawables
         /\ undoStack' = Append(undoStack, [id |-> nextId, points |-> <<>>])
         /\ nextId' = nextId + 1
         /\ UNCHANGED <<redoStack, drawingTool, cursorDrawCommand,
                        drawingTools, toolButtons, colorPicker,
                        stickerRotationSlider, exportTargets>>
    ELSE UNCHANGED vars

\* canvas 'mousemove'
MouseMove_000(posn, held) ==
    IF held /\ Len(undoStack) > 0
    THEN /\ Len(Top(undoStack).points) < MaxPoints
         /\ undoStack' = [undoStack EXCEPT
                              ![Len(undoStack)].points = Append(@, posn)]
         /\ UNCHANGED <<redoStack, drawingTool, cursorDrawCommand,
                        drawingTools, toolButtons, colorPicker,
                        stickerRotationSlider, nextId, exportTargets>>
    ELSE UNCHANGED vars

UndoClick_000 ==
    LET r == drawingUndo_000(undoStack, redoStack)
    IN /\ undoStack' = r.undoStack
       /\ redoStack' = r.redoStack
       /\ UNCHANGED <<drawingTool, cursorDrawCommand, drawingTools,
                      toolButtons, colorPicker, stickerRotationSlider, nextId,
                      exportTargets>>

RedoClick_000 ==
    LET r == drawingRedo_000(undoStack, redoStack)
    IN /\ undoStack' = r.undoStack
       /\ redoStack' = r.redoStack
       /\ UNCHANGED <<drawingTool, cursorDrawCommand, drawingTools,
                      toolButtons, colorPicker, stickerRotationSlider, nextId,
                      exportTargets>>

ClearClick_000 ==
    LET r == drawingClear_000(undoStack, redoStack)
    IN /\ undoStack' = r.undoStack
       /\ redoStack' = r.redoStack
       /\ UNCHANGED <<drawingTool, cursorDrawCommand, drawingTools,
                      toolButtons, colorPicker, stickerRotationSlider, nextId,
                      exportTargets>>

Next_000 ==
    \/ \E button \in Buttons : MouseDown_000(button)
    \/ \E posn \in Points, held \in BOOLEAN : MouseMove_000(posn, held)
    \/ UndoClick_000
    \/ RedoClick_000
    \/ ClearClick_000

Spec_000 == Init_000 /\ [][Next_000]_vars

(***************************************************************************)
(* Properties.                                                             *)
(***************************************************************************)
\* every draw command the history holds, committed first
History == undoStack \o redoStack

\* everything the handlers keep, the identity counter aside
applicationState ==
    <<undoStack, redoStack, drawingTool, cursorDrawCommand, drawingTools,
      toolButtons, colorPicker, stickerRotationSlider>>

\* C1: redo invalidation.  Every primary-button press and every Clear leaves
\* the redo stack empty; while the redo stack is empty drawingRedo returns
\* false and a Redo click changes nothing; and an empty redo stack becomes
\* non-empty only by a drawingUndo that returns true.
C1_RedoInvalidation ==
    /\ [](redoStack = <<>> => drawingRedo(undoStack, redoStack).ret = "false")
    /\ [][/\ (MouseDown(LEFT_CLICK) \/ ClearClick) => redoStack' = <<>>
          /\ (redoStack = <<>> /\ RedoClick) => UNCHANGED applicationState
          /\ (redoStack = <<>> /\ redoStack' # <<>>) =>
                /\ UndoClick
                /\ drawingUndo(undoStack, redoStack).ret = "true"]_vars

\* the first draw command is gone from both stacks and the second one, pushed
\* by a later press, is the only one left, with nothing to redo
C1_Witness ==
    /\ redoStack = <<>>
    /\ Len(undoStack) = 1
    /\ undoStack[1].id = 2

RECURSIVE UndoTimes(_, _, _)
UndoTimes(undo, redo, n) ==
    IF n = 0
    THEN [undoStack |-> undo, redoStack |-> redo]
    ELSE LET r == drawingUndo(undo, redo)
         IN UndoTimes(r.undoStack, r.redoStack, n - 1)

RECURSIVE RedoTimes(_, _, _)
RedoTimes(undo, redo, n) ==
    IF n = 0
    THEN [undoStack |-> undo, redoStack |-> redo]
    ELSE LET r == drawingRedo(undo, redo)
         IN RedoTimes(r.undoStack, r.redoStack, n - 1)

\* C2: undo/redo inverse law.  From every state with nothing to redo (as
\* after presses and moves only), N calls of drawingUndo followed by N calls
\* of drawingRedo give back the committed stack, element for element, for
\* every N from 0 to beyond the number of committed draw commands.
C2_UndoRedoInverse ==
    redoStack = <<>> =>
        \A n \in 0..(MaxDrawables + 2) :
            LET u == UndoTimes(undoStack, redoStack, n)
                r == RedoTimes(u.undoStack, u.redoStack, n)
            IN /\ r.undoStack = undoStack
               /\ r.redoStack = <<>>
               /\ n >= Len(undoStack) => u.undoStack = <<>>

\* two committed draw commands, the lower a stroke with two points, the upper
\* a sticker, and nothing to redo
C2_Witness ==
    /\ redoStack = <<>>
    /\ Len(undoStack) = 2
    /\ undoStack[1].kind = "marker"
    /\ Len(undoStack[1].points) = 2
    /\ undoStack[2].kind = "sticker"

\* C3: drawingUndo.  On a non-empty committed stack an Undo click removes
\* exactly the top element, pushes that element onto the redo stack and
\* drawingUndo returns true; on an empty committed stack drawingUndo returns
\* false and the click changes neither stack, nor the active tool, nor the
\* cursor preview.
C3_Undo ==
    /\ [](drawingUndo(undoStack, redoStack).ret =
              IF Len(undoStack) > 0 THEN "true" ELSE "false")
    /\ [][UndoClick =>
            IF Len(undoStack) > 0
            THEN /\ undoStack' = Front(undoStack)
                 /\ redoStack' = Append(redoStack, Top(undoStack))
            ELSE UNCHANGED <<undoStack, redoStack, drawingTool,
                             cursorDrawCommand>>]_vars

\* the second draw command has been undone, the first is still committed
C3_Witness ==
    /\ Len(undoStack) = 1
    /\ undoStack[1].id = 1
    /\ Len(redoStack) = 1
    /\ redoStack[1].id = 2

\* C4: drawingRedo is last-in-first-out.  On a non-empty redo stack a Redo
\* click moves exactly the top of the redo stack, the draw command undone
\* most recently, to the top of the committed stack and drawingRedo returns
\* true; on an empty redo stack it returns false and changes nothing.
C4_RedoLifo ==
    /\ [](drawingRedo(undoStack, redoStack).ret =
              IF Len(redoStack) > 0 THEN "true" ELSE "false")
    /\ [][RedoClick =>
            IF Len(redoStack) > 0
            THEN /\ undoStack' = Append(undoStack, Top(redoStack))
                 /\ redoStack' = Front(redoStack)
                 /\ Len(redoStack') = Len(redoStack) - 1
            ELSE UNCHANGED applicationState]_vars

\* two draw commands have been undone, the first one last: the next Redo has
\* to bring back the first one alone
C4_Witness ==
    /\ undoStack = <<>>
    /\ Len(redoStack) = 2
    /\ redoStack[1].id = 2
    /\ redoStack[2].id = 1

\* C5: Clear is unconditional and irreversible.  A Clear click empties both
\* stacks; with both stacks empty drawingUndo and drawingRedo return false;
\* and no Undo or Redo click puts a draw command into the stacks that was
\* not in them before the click.
C5_ClearIrreversible ==
    /\ []((undoStack = <<>> /\ redoStack = <<>>) =>
            /\ drawingUndo(undoStack, redoStack).ret = "false"
            /\ drawingRedo(undoStack, redoStack).ret = "false")
    /\ [][/\ ClearClick => (undoStack' = <<>> /\ redoStack' = <<>>)
          /\ (UndoClick \/ RedoClick) =>
                {History'[i] : i \in 1..Len(History')} \subseteq
                    {History[i] : i \in 1..Len(History)}]_vars

\* both stacks are empty although draw commands have been created
C5_Witness ==
    /\ undoStack = <<>>
    /\ redoStack = <<>>
    /\ nextId = MaxDrawables + 1

\* C6: a draw command is closed to mutation once superseded.  A draw command
\* that is still in one of the stacks and is older than the newest draw
\* command created has had a successor pushed above it; no step changes it.
C6_ClosedOnceSuperseded ==
    [][\A i \in 1..Len(History), j \in 1..Len(History') :
          (History[i].id = History'[j].id /\ History[i].id < nextId - 1)
              => History'[j] = History[i]]_vars

\* C7: stroke monotonicity.  In every step the points of every stroke that
\* stays in the history, committed or undone, extend its points before the
\* step; and a move routed to a stroke appends exactly that position, also
\* when it equals the last point.
C7_StrokeMonotonic ==
    [][/\ \A i \in 1..Len(History), j \in 1..Len(History') :
             (History[i].id = History'[j].id /\ History[i].kind = "marker")
                 => /\ History'[j].kind = "marker"
                    /\ IsPrefix(History[i].points, History'[j].points)
       /\ \A posn \in Points :
             (/\ MouseMove(posn, TRUE)
              /\ Len(undoStack) > 0
              /\ Top(undoStack).kind = "marker")
                 => Top(undoStack').points =
                        Append(Top(undoStack).points, posn)]_vars

\* an undone stroke that holds the same point twice
C7_Witness ==
    \E i \in 1..Len(redoStack) :
        /\ redoStack[i].kind = "marker"
        /\ Len(redoStack[i].points) = 2
        /\ redoStack[i].points[1] = redoStack[i].points[2]

\* C8: sticker replace semantics.  A move applied to a sticker, the committed
\* top or the cursor preview, leaves its anchor equal to the position of
\* that move; after two moves the anchor is the second position whatever
\* the first position and the anchor before were.
C8_StickerReplace ==
    /\ [](\A i \in 1..Len(History) : History[i].kind = "sticker" =>
            \A p1 \in Points, p2 \in Points :
                /\ move(History[i], p2).posn = p2
                /\ move(move(History[i], p1), p2).posn = p2)
    /\ [][\A posn \in Points :
            /\ (/\ MouseMove(posn, TRUE)
                /\ Len(undoStack) > 0
                /\ Top(undoStack).kind = "sticker")
                   => undoStack' = [undoStack EXCEPT
                                       ![Len(undoStack)].posn = posn]
            /\ (/\ MouseMove(posn, FALSE)
                /\ Lookup(drawingTools, drawingTool).kind = "sticker")
                   => cursorDrawCommand'.posn = posn]_vars

\* a committed sticker is being dragged: it is the top of the committed
\* stack at a pointer position other than that of the sticker below it
C8_Witness ==
    /\ Len(undoStack) = 2
    /\ undoStack[1].kind = "sticker"
    /\ undoStack[2].kind = "sticker"
    /\ undoStack[1].posn \in Points
    /\ undoStack[2].posn \in Points
    /\ undoStack[1].posn # undoStack[2].posn
    /\ cursorDrawCommand = Null

\* C9: the active tool is always a registered tool with both factories, so
\* that a primary-button press never fails.
C9_ActiveToolRegistered ==
    /\ drawingTool \in DOMAIN drawingTools
    /\ ~drawingBeginUndoStep(undoStack, redoStack, drawingTools, drawingTool,
            nextId, colorPicker, stickerRotationSlider,
            cursorDrawCommand).threw

\* C10: custom-sticker registration is idempotent.  defineCustomSticker with
\* a registered text returns the tool stored under it and leaves the registry
\* and the tool buttons as they are; there is one tool button per registry
\* entry.
C10_RegistrationIdempotent ==
    /\ \A text \in DOMAIN drawingTools :
          LET r == defineCustomSticker(drawingTools, toolButtons, text)
          IN /\ r.ret = drawingTools[text]
             /\ r.drawingTools = drawingTools
             /\ r.toolButtons = toolButtons
    /\ Len(toolButtons) = Cardinality(DOMAIN drawingTools)
    /\ {toolButtons[i].name : i \in 1..Len(toolButtons)} = DOMAIN drawingTools

\* the custom sticker "X" is registered and a registered text entered at the
\* prompt afterwards has made "Thin Marker" the active tool again
C10_Witness ==
    /\ "X" \in DOMAIN drawingTools
    /\ Len(toolButtons) = 6
    /\ drawingTool = "Thin Marker"
    /\ toolButtons[1].disabled
    /\ ~toolButtons[6].disabled

\* C11: selecting the tool that is already active is a no-op on every
\* selection path (its tool button, its text at the custom-sticker prompt):
\* the active tool and the cursor preview stay as they are and no
\* 'tool-changed' listener runs, so the tool buttons stay as they are.
C11_ReselectIsNoOp ==
    [][/\ \A i \in 1..Len(toolButtons) :
             (ToolButtonClick(i) /\ toolButtons[i].name = drawingTool) =>
                 UNCHANGED <<drawingTool, cursorDrawCommand, toolButtons>>
       /\ \A text \in PromptTexts :
             (CustomStickerClick(text) /\ text = drawingTool) =>
                 UNCHANGED <<drawingTool, cursorDrawCommand, toolButtons>>
      ]_vars

\* C12: cancelling the custom-sticker prompt is a no-op.  With the answer
\* null tryDefineCustomStickerFromPrompt leaves the active tool, the tool
\* registry, the tool buttons and the cursor preview as they are, and the
\* handler changes neither stack.
C12_CancelIsNoOp ==
    /\ [](LET r == tryDefineCustomStickerFromPrompt(Null, drawingTools,
                       toolButtons, drawingTool, colorPicker,
                       stickerRotationSlider, cursorDrawCommand)
          IN /\ r.drawingTool = drawingTool
             /\ r.drawingTools = drawingTools
             /\ r.toolButtons = toolButtons
             /\ r.cursorDrawCommand = cursorDrawCommand
             /\ ~r.threw)
    /\ [][CustomStickerCancel =>
             UNCHANGED <<drawingTool, drawingTools, toolButtons,
                         cursorDrawCommand, undoStack, redoStack>>]_vars

\* a state where the prompt is cancelled and entering a text instead would
\* have changed the tool, the registry, the buttons and the cursor preview:
\* both stacks hold a command, "X" is not registered, a preview is shown
C12_Witness ==
    /\ undoStack # <<>>
    /\ redoStack # <<>>
    /\ "X" \notin DOMAIN drawingTools
    /\ cursorDrawCommand # Null
    /\ cursorDrawCommand.posn \in Points
    /\ ENABLED CustomStickerCancel

\* C13: every render clears the surface first, then draws every draw
\* command of the committed stack exactly once, bottom to top, then draws
\* the cursor preview last if and only if there is one; no draw command of
\* the redo stack is drawn.
C13_RenderOrder ==
    LET r == drawingUpdate(undoStack, cursorDrawCommand, colorPicker)
        n == Len(undoStack)
    IN /\ r.calls[1].op = "clearRect"
       /\ \A k \in 2..Len(r.calls) : r.calls[k].op # "clearRect"
       /\ Len(r.drawn) = n + (IF cursorDrawCommand # Null THEN 1 ELSE 0)
       /\ \A i \in 1..n : r.drawn[i] = undoStack[i]
       /\ cursorDrawCommand # Null => r.drawn[n + 1] = cursorDrawCommand
       /\ \A j \in 1..Len(redoStack), k \in 1..Len(r.drawn) :
             r.drawn[k].id # redoStack[j].id
       /\ Tail(r.calls) =
             Flatten([k \in 1..Len(r.drawn) |->
                 draw(r.drawn[k], colorPicker).calls])

\* a state a render draws as a committed stroke with a line under a cursor
\* preview, while the redo stack holds a command
C13_Witness ==
    /\ Len(undoStack) = 1
    /\ undoStack[1].kind = "marker"
    /\ Len(undoStack[1].points) = 2
    /\ Len(redoStack) = 1
    /\ cursorDrawCommand # Null

\* C14: a render is pure and idempotent.  drawingUpdate leaves the committed
\* stack, every draw command's stored points, anchor, rotation and colour and
\* the cursor preview as they are, and a second render right after the first
\* makes the same sequence of calls on the rendering context.
C14_RenderPure ==
    LET r == drawingUpdate(undoStack, cursorDrawCommand, colorPicker)
        again == drawingUpdate(r.displayList, r.cursorDrawCommand,
                     colorPicker)
    IN /\ r.displayList = undoStack
       /\ r.cursorDrawCommand = cursorDrawCommand
       /\ again.calls = r.calls
       /\ again.drawn = r.drawn

\* a state a render draws as a stroke with a line and a sticker under a
\* sticker preview
C14_Witness ==
    /\ Len(undoStack) = 2
    /\ \E i \in 1..2 : /\ undoStack[i].kind = "marker"
                       /\ Len(undoStack[i].points) = 2
    /\ \E i \in 1..2 : undoStack[i].kind = "sticker"
    /\ cursorDrawCommand # Null
    /\ cursorDrawCommand.kind = "sticker"

\* what a render of the state would read
Observed == Reads(undoStack, cursorDrawCommand, colorPicker)

\* every render of the sequence reads the state the step ends in
SeesFinalState(renders) ==
    \A k \in 1..Len(renders) : renders[k] = Observed'

\* C15: every render a handler triggers on the canvas reads the state as it
\* is when the handler has finished.  In particular the renders of a
\* primary-button press, which pushes a draw command, hides the cursor
\* preview and dispatches 'drawing-changed' and 'tool-moved', read no state
\* in which only part of the handler's updates have been made; the same for
\* a pointer move, a tool button and the action buttons.
C15_RenderSeesFinalState ==
    [][/\ MouseDown(LEFT_CLICK) => SeesFinalState(MouseDownRenders)
       /\ \A posn \in Points, held \in BOOLEAN :
             MouseMove(posn, held) =>
                 SeesFinalState(MouseMoveRenders(posn, held))
       /\ \A i \in 1..Len(toolButtons) :
             ToolButtonClick(i) => SeesFinalState(ToolButtonClickRenders(i))
       /\ UndoClick =>
             SeesFinalState(makeActionButtonRenders(
                 drawingUndo(undoStack, redoStack).undoStack,
                 cursorDrawCommand, colorPicker, FALSE))
       /\ RedoClick =>
             SeesFinalState(makeActionButtonRenders(
                 drawingRedo(undoStack, redoStack).undoStack,
                 cursorDrawCommand, colorPicker, FALSE))
       /\ ClearClick =>
             SeesFinalState(makeActionButtonRenders(
                 drawingClear(undoStack, redoStack).undoStack,
                 cursorDrawCommand, colorPicker, FALSE))
       /\ \A answer \in {Null} \cup {PromptAnswer(t) : t \in PromptTexts} :
             CustomStickerPrompt(answer) =>
                 LET r == tryDefineCustomStickerFromPrompt(answer,
                              drawingTools, toolButtons, drawingTool,
                              colorPicker, stickerRotationSlider,
                              cursorDrawCommand)
                 IN SeesFinalState(makeActionButtonRenders(undoStack,
                        r.cursorDrawCommand, colorPicker, r.threw))
       /\ ExportClick =>
             SeesFinalState(makeActionButtonRenders(undoStack,
                 drawingExport(drawingTools, drawingTool, colorPicker,
                     stickerRotationSlider, cursorDrawCommand),
                 colorPicker, FALSE))
      ]_vars

\* C16: while an edit is in progress, from the press until the button is
\* released, the cursor preview is absent at the end of every handler.  A
\* press that pushes a draw command ends with the preview absent, and from
\* then on every handler other than a pointer move that reports the button
\* released (a move, Undo, Redo, Clear, a tool selection, the custom-sticker
\* prompt, Export) ends with the preview absent.
C16_NoPreviewWhileEditing ==
    [][/\ (MouseDown(LEFT_CLICK) /\ undoStack' # undoStack) =>
             cursorDrawCommand' = Null
       /\ (/\ cursorDrawCommand = Null
           /\ ~\E posn \in Points : MouseMove(posn, FALSE)) =>
             cursorDrawCommand' = Null
      ]_vars

\* C17: Export renders onto its target with the cursor preview absent, and
\* when it returns a cursor preview is present if and only if one was present
\* before; both stacks, every draw command in them and the active tool are
\* unchanged.
C17_ExportFrame ==
    /\ [](LET r == drawingExportRender(undoStack, cursorDrawCommand,
                       colorPicker)
          IN /\ r.drawn = undoStack
             /\ r.displayList = undoStack)
    /\ [][ExportClick =>
             /\ (cursorDrawCommand' # Null) <=> (cursorDrawCommand # Null)
             /\ UNCHANGED <<undoStack, redoStack, drawingTool>>]_vars

\* C18: after every handler a tool button is disabled if and only if its
\* tool is the active tool, whichever way the active tool was set (a tool
\* button, the custom-sticker prompt, the startup default) and also for the
\* buttons made after startup.
C18_DisabledIffActive ==
    \A i \in 1..Len(toolButtons) :
        toolButtons[i].disabled <=> (toolButtons[i].name = drawingTool)

\* C19: a pointer move with the primary button held and a non-empty
\* committed stack applies the move to exactly the draw command that is the
\* top of the committed stack at that moment (a stroke gets the point
\* appended, a sticker gets the point as its anchor); every other committed
\* draw command, the redo stack, the lengths and the order of both stacks and
\* the active tool are unchanged.  A move with the button released changes
\* neither stack nor any draw command in them.
C19_MoveFrame ==
    [][\A posn \in Points :
          /\ (MouseMove(posn, TRUE) /\ Len(undoStack) > 0) =>
                LET n == Len(undoStack)
                IN /\ Len(undoStack') = n
                   /\ \A i \in 1..(n - 1) : undoStack'[i] = undoStack[i]
                   /\ undoStack'[n].id = undoStack[n].id
                   /\ undoStack'[n].kind = undoStack[n].kind
                   /\ IF undoStack[n].kind = "marker"
                      THEN undoStack'[n] =
                              [undoStack[n] EXCEPT
                                  !.points = Append(@, posn)]
                      ELSE undoStack'[n] =
                              [undoStack[n] EXCEPT !.posn = posn]
                   /\ UNCHANGED <<redoStack, drawingTool>>
          /\ MouseMove(posn, FALSE) => UNCHANGED <<undoStack, redoStack>>
      ]_vars

\* two strokes are committed and a held-button move has given a point to the
\* top one only
C19_Witness ==
    /\ Len(undoStack) = 2
    /\ undoStack[1].kind = "marker"
    /\ undoStack[1].points = <<>>
    /\ undoStack[2].kind = "marker"
    /\ undoStack[2].points # <<>>
    /\ cursorDrawCommand = Null

\* C20 as stated: every reachable state of the history is Empty (both
\* stacks empty) or Active (committed stack non-empty).
C20_EmptyOrActive ==
    \/ undoStack = <<>> /\ redoStack = <<>>
    \/ undoStack # <<>>

\* the third state of the history: nothing committed, something to redo
Undone == undoStack = <<>> /\ redoStack # <<>>

\* C20, amended: every reachable state of the history is Empty, Active or
\* Undone (committed stack empty, redo stack non-empty), and the Undone state
\* is entered only by a drawingUndo that removes the last committed draw
\* command; in it drawingUndo returns false and drawingRedo returns true.
C20_HistoryStates ==
    /\ [](Undone => /\ drawingUndo(undoStack, redoStack).ret = "false"
                     /\ drawingRedo(undoStack, redoStack).ret = "true")
    /\ [][(~Undone /\ Undone') =>
             /\ UndoClick
             /\ Len(undoStack) = 1
             /\ redoStack' = Append(redoStack, undoStack[1])]_vars

\* both draw commands have been undone: nothing is committed and the redo
\* stack holds two commands
C20_Witness ==
    /\ undoStack = <<>>
    /\ Len(redoStack) = 2

\* C21: in the first revision with undo and redo the redo stack is empty
\* after Clear and after a primary-button press that starts a new stroke, so
\* a stroke undone before a Clear or a new stroke is never brought back by
\* Redo.
C21_RedoInvalidation_000 ==
    [][/\ (MouseDown_000(LEFT_CLICK) \/ ClearClick_000) => redoStack' = <<>>
       /\ \A j \in 1..Len(redoStack) :
             (MouseDown_000(LEFT_CLICK) \/ ClearClick_000) =>
                 ~\E k \in 1..Len(redoStack') :
                     redoStack'[k].id = redoStack[j].id
      ]_vars

\* C22: a sticker lands where the pointer is: every primary-button press
\* with a sticker tool active pushes a sticker whose anchor is a defined
\* point, also when the press follows a press or drag with no pointer move in
\* between (here: the Drawable on top was itself placed at a defined point,
\* so the pointer has a position over the canvas).
C22_StickerAtPointer ==
    [][(/\ MouseDown(LEFT_CLICK)
        /\ Lookup(drawingTools, drawingTool).kind = "sticker"
        /\ Len(undoStack) > 0
        /\ Top(undoStack).kind = "sticker"
        /\ Top(undoStack).posn # NaNPoint
        /\ Len(undoStack') = Len(undoStack) + 1)
       => Top(undoStack').posn # NaNPoint
      ]_vars

\* the most recent render is current: when the step changes what a render
\* reads, the handler has rendered, and its last render read the state the
\* step ends in
RenderedAtRest(renders) ==
    Observed' # Observed =>
        /\ renders # <<>>
        /\ renders[Len(renders)] = Observed'

\* C23: the interactive canvas is never stale at rest: after every handler
\* that changes the committed stack, a Drawable in it, the cursor preview or
\* a value read at render time (press, move, Undo, Redo, Clear, tool
\* selection, custom-sticker prompt, Export, colour-picker change), the most
\* recent render of the canvas read the current committed stack, cursor
\* preview and colour.
C23_NeverStaleAtRest ==
    [][/\ MouseDown(LEFT_CLICK) => RenderedAtRest(MouseDownRenders)
       /\ \A posn \in Points, held \in BOOLEAN :
             MouseMove(posn, held) =>
                 RenderedAtRest(MouseMoveRenders(posn, held))
       /\ \A i \in 1..Len(toolButtons) :
             ToolButtonClick(i) => RenderedAtRest(ToolButtonClickRenders(i))
       /\ UndoClick =>
             RenderedAtRest(makeActionButtonRenders(
                 drawingUndo(undoStack, redoStack).undoStack,
                 cursorDrawCommand, colorPicker, FALSE))
       /\ RedoClick =>
             RenderedAtRest(makeActionButtonRenders(
                 drawingRedo(undoStack, redoStack).undoStack,
                 cursorDrawCommand, colorPicker, FALSE))
       /\ ClearClick =>
             RenderedAtRest(makeActionButtonRenders(
                 drawingClear(undoStack, redoStack).undoStack,
                 cursorDrawCommand, colorPicker, FALSE))
       /\ \A answer \in {Null} \cup {PromptAnswer(t) : t \in PromptTexts} :
             CustomStickerPrompt(answer) =>
                 LET r == tryDefineCustomStickerFromPrompt(answer,
                              drawingTools, toolButtons, drawingTool,
                              colorPicker, stickerRotationSlider,
                              cursorDrawCommand)
                 IN RenderedAtRest(makeActionButtonRenders(undoStack,
                        r.cursorDrawCommand, colorPicker, r.threw))
       /\ ExportClick =>
             RenderedAtRest(makeActionButtonRenders(undoStack,
                 drawingExport(drawingTools, drawingTool, colorPicker,
                     stickerRotationSlider, cursorDrawCommand),
                 colorPicker, FALSE))
       /\ \A color \in Colors :
             ColorInput(color) => RenderedAtRest(ColorInputRenders)
      ]_vars

\* C24: the image an export downloads is the render of the committed stack
\* as it was when Export was invoked, without cursor preview: whatever
\* presses, moves, Undo, Redo or Clear are handled between the click on
\* Export and the completion of the conversion, the downloaded image is the
\* drawingUpdate of the displayList of the time of the click with no cursor.
C24_ExportSnapshot ==
    [][\A k \in 1..Len(exportTargets) :
          ExportComplete(k) =>
              convertToBlob(exportTargets[k], undoStack, colorPicker).image =
                  drawingUpdate(exportTargets[k].invoked.displayList, Null,
                      exportTargets[k].invoked.colorPicker).calls
      ]_vars

\* an export of a non-empty drawing is pending, and the handlers run since
\* the click have changed what a render of the committed stack draws
C24_Witness ==
    \E k \in 1..Len(exportTargets) :
        /\ exportTargets[k].invoked.displayList # <<>>
        /\ exportTargets[k].invoked.displayList # undoStack
        /\ exportTargets[k].bitmap #
               drawingUpdate(undoStack, Null, colorPicker).calls

Reverse(s) == [i \in 1..Len(s) |-> s[Len(s) + 1 - i]]

\* the draw command objects of the history, committed ones first
Owned == undoStack \o redoStack

\* C25: ownership and conservation.  In every reachable state each draw
\* command object occurs at most once in the committed stack and the redo
\* stack taken together, and the cursor preview object is in neither stack,
\* also when a sticker tool built it; Undo and Redo neither create,
\* duplicate nor drop a draw command: the committed stack followed by the
\* reversed redo stack is the same sequence before and after each of them.
C25_OwnershipAndConservation ==
    /\ [](/\ \A i, j \in 1..Len(Owned) : Owned[i].id = Owned[j].id => i = j
          /\ cursorDrawCommand # Null =>
                \A i \in 1..Len(Owned) : Owned[i].id # cursorDrawCommand.id)
    /\ [][UndoClick \/ RedoClick =>
             undoStack' \o Reverse(redoStack') =
                 undoStack \o Reverse(redoStack)]_vars

\* a sticker preview is shown while both stacks hold a draw command: Undo has
\* moved one across
C25_Witness ==
    /\ Len(undoStack) > 0
    /\ Len(redoStack) > 0
    /\ cursorDrawCommand # Null
    /\ cursorDrawCommand.kind = "sticker"
    /\ Top(undoStack).kind = "sticker"

\* C26: a press whose draw command cannot be created, because the active
\* tool has no usable factory in the registry, fails without changing the
\* history: the committed stack and the redo stack are the same after the
\* failed drawingBeginUndoStep as before it.
C26_FailedPressKeepsHistory ==
    [][(/\ MouseDown(LEFT_CLICK)
        /\ drawingBeginUndoStep(undoStack, redoStack, drawingTools,
               drawingTool, nextId, colorPicker, stickerRotationSlider,
               cursorDrawCommand).threw)
       => /\ undoStack' = undoStack
          /\ redoStack' = redoStack
      ]_vars

====
